---- MODULE Spec2Model ----
(***************************************************************************)
(* Model of Calibration.ino, the HX711 static thrust logger: setup(),      *)
(* loop(), calibrate() and changeSavedCalFactor() as one state machine.    *)
(* The sketch is single threaded; pc is the place where control waits.     *)
(* The HX711_ADC driver, the serial line and millis() are the environment: *)
(* what they return is chosen with \E from the small sets below.           *)
(***************************************************************************)
EXTENDS Integers, Sequences, FiniteSets, TLC

\* ---------------------------------------------------------------- floats
\* A float is a record: a number (integer valued here), a NaN or an infinity.
Num(n) == [cls |-> "num", val |-> n]
NaN == [cls |-> "nan", val |-> 0]
PosInf == [cls |-> "inf", val |-> 1]

\* isnan(v)
isnan(v) == v.cls = "nan"

\* v < 0.0f : false for a NaN
FloatLtZero(v) == v.cls # "nan" /\ v.val < 0

\* v > 0.0 : false for a NaN
FloatGtZero(v) == v.cls # "nan" /\ v.val > 0

\* v != 0 : true for a NaN and for an infinity
FloatNeZero(v) == ~(v.cls = "num" /\ v.val = 0)

\* v >= 0 as IEEE compares: false for a NaN
FloatGeZero(v) == v.cls # "nan" /\ v.val >= 0

\* ------------------------------------------------------- bounds and inputs
\* millis() stops advancing in the main loop at MaxTime
MaxTime == 2009
\* the longest delay between two polls of the main loop, in ms
MaxLate == 3
\* the time one pass of a dialog's wait may take, in ms (or none)
DialogWait == 7
\* a tare wait that outlasts the 32 bit timer ends this many ms before millis()
\* rolls over to 0, and millis() stops advancing this many ms after it did
RolloverLead == 2
RolloverTail == 2

\* `unsigned long stabilizingtime = 2000` : LoadCell.start blocks that long
stabilizingtime == 2000
\* `unsigned long sampleIntervalMs = 10`
DefaultIntervalMs == 10
\* `millis() - startWait < 5000`
FreqTimeoutMs == 5000
\* `1000.0f / newHz`
MsPerSecond == 1000

\* millis(), startTimeMs and lastSampleMs are unsigned long, 32 bits wide, and the
\* sketch computes with them modulo 2^32.  A time is written here as the two's
\* complement reading of its 32 bits: 0, 1, 2, ... after power up, and -k for
\* 2^32 - k, the k-th ms before the rollover.  Sums and differences modulo 2^32 of
\* times that are less than 2^31 apart are then the integer sums and differences.
\* The times the model lets the clock take: the ms from the end of LoadCell.start to
\* MaxTime, and the ms around the rollover.
InWindow(t) == t <= MaxTime /\ (t < stabilizingtime => t <= RolloverTail)

\* a <= b for two unsigned long written as above
ULe(a, b) == IF (a < 0) = (b < 0) THEN a <= b ELSE b < 0

\* bytes the operator may send; "x" stands for every byte without a meaning
Bytes == {"t", "r", "c", "m", "f", "h", "y", "n", "x"}
\* the bytes that mean something to loop(), to the tare wait and to a y/n wait
LoopBytes == {"t", "r", "c", "m", "f", "h", "x"}
TareBytes == {"t", "x"}
SaveBytes == {"y", "n", "x"}
NoInput == [kind |-> "none", byte |-> "", num |-> 0]
ByteIn(b) == [kind |-> "byte", byte |-> b, num |-> 0]
NumIn(n) == [kind |-> "num", byte |-> "", num |-> n]
ByteInputs(bytes) == {NoInput} \cup {ByteIn(b) : b \in bytes}

\* what Serial.parseFloat() returns for the frequency prompt (0: also no digits)
HzInputs == {-5, 0, 50, 300, 2000}
\* ... for the known mass
MassInputs == {-100, 0, 100}
\* ... for the factor typed after 'c'
FactorInputs == {0, 696}
\* what LoadCell.getNewCalibration() may return
DriverFactors == {Num(250)}
\* what LoadCell.getData() may return
RawLoads == {Num(-5), Num(7), NaN}
\* what the EEPROM may hold at the first power up (erased cells read as NaN)
EepromContents == {NaN, Num(0), Num(250), PosInf}

\* the factor the driver object holds before setCalFactor is called
DriverInitialFactor == [cls |-> "unset", val |-> 0]
NoValue == Num(0)
NoReading == [t |-> 0, raw |-> Num(0), load |-> Num(0), csv |-> FALSE, any |-> FALSE]

\* what LoadCell.update() may find in one pass of the tare wait
UpdateOutcomes == {"data", "idle", "timeout"}

CalStages == {"cal_tare", "cal_mass", "cal_save"}

VARIABLES
  pc,                  \* where control is
  caller,              \* who called calibrate(): "setup" or "loop"
  clock,               \* millis()
  startTimeMs, lastSampleMs, sampleIntervalMs, csvMode, printingHeader,
  calFactor,           \* the driver's calibration factor
  tareTimeoutFlag, signalTimeoutFlag,   \* the driver's timeout flags
  eeprom,              \* the float at calVal_eepromAdress
  known_mass, newCalibrationValue,   \* locals of the two dialogs
  out,                 \* the lines printed by the last step
  rx,                  \* the input the last pass of a dialog's wait consumed
  reading,             \* the reading the last step printed, if any
  headerCount,         \* CSV header lines printed since power up
  calLog,              \* the stages the current run of calibrate() has completed
  emitted,             \* a reading was printed since the time origin was set
                       \* and the interval last changed
  lastElapsed,         \* the elapsed time of the last such reading
  lastSaved            \* the factor the operator last confirmed with 'y'

vars == <<pc, caller, clock, startTimeMs, lastSampleMs, sampleIntervalMs, csvMode,
          printingHeader, calFactor, tareTimeoutFlag, signalTimeoutFlag, eeprom, known_mass, newCalibrationValue,
          out, rx, reading, headerCount, calLog, emitted, lastElapsed,
          lastSaved>>

\* the sketch's own state: everything but the clock
progVars == <<pc, caller, startTimeMs, lastSampleMs, sampleIntervalMs, csvMode,
              printingHeader, calFactor, tareTimeoutFlag, signalTimeoutFlag, eeprom, known_mass,
              newCalibrationValue, out, rx, reading, headerCount, calLog, emitted, lastElapsed, lastSaved>>

\* the globals as the sketch initializes them, the EEPROM as it is found
Init ==
  /\ pc = "boot"
  /\ caller = "setup"
  /\ clock = 0
  /\ startTimeMs = 0
  /\ lastSampleMs = 0
  /\ sampleIntervalMs = DefaultIntervalMs
  /\ csvMode = FALSE
  /\ printingHeader = FALSE
  /\ calFactor = DriverInitialFactor
  /\ tareTimeoutFlag = FALSE
  /\ signalTimeoutFlag = FALSE
  /\ eeprom \in EepromContents
  /\ known_mass = NoValue
  /\ newCalibrationValue = NoValue
  /\ out = <<>>
  /\ rx = NoInput
  /\ reading = NoReading
  /\ headerCount = 0
  /\ calLog = <<>>
  /\ emitted = FALSE
  /\ lastElapsed = 0
  /\ lastSaved = NoValue

\* the number of CSV header lines in a step's output
Headers(lines) == Cardinality({i \in 1..Len(lines) : lines[i] = "time_s,load"})

\* ---------------------------------------------------------------- helpers
\* a clampZero that passes every value through
clampZeroNoClamp(v) == v

\* clampZero: `if (v < 0.0f) return 0.0f; return v;`
clampZero(v) == IF FloatLtZero(v) THEN Num(0) ELSE v

\* a start check that looks at the tare timeout only
StartFailedTareOnly(tareFlag, signalFlag) == tareFlag

\* setup: `getTareTimeoutFlag() || getSignalTimeoutFlag()`
StartFailed(tareFlag, signalFlag) == tareFlag \/ signalFlag

\* a load check without the isnan test
SavedCalUsableNoNaNTest(savedCal) == FloatNeZero(savedCal)

\* setup: `!isnan(savedCal) && savedCal != 0.0`
SavedCalUsable(savedCal) == ~isnan(savedCal) /\ FloatNeZero(savedCal)

\* a load that ignores the store
LoadedFactorDefault(savedCal) == Num(1)

\* setup: the factor handed to LoadCell.setCalFactor
LoadedFactor(savedCal) == IF SavedCalUsable(savedCal) THEN savedCal ELSE Num(1)

\* a due test that misses the poll exactly one interval after the schedule point
SampleDueStrict(now) == now - lastSampleMs > sampleIntervalMs

\* loop: `now - lastSampleMs >= sampleIntervalMs`
SampleDue(now) == now - lastSampleMs >= sampleIntervalMs

\* a schedule that snaps to the time of the poll: `lastSampleMs = now`
NextSampleMsSnap(last, interval, now) == now

\* a schedule point put one interval after the poll
NextSampleMsAhead(last, interval, now) == now + interval

\* a schedule that skips the ticks that were missed
NextSampleMsSkip(last, interval, now) ==
  IF interval = 0 THEN last ELSE last + interval * ((now - last) \div interval)

\* loop: `lastSampleMs += sampleIntervalMs`
NextSampleMs(last, interval, now) == last + interval

\* a header test that forgets the latch
HeaderDueNoLatch(mode, latch) == mode

\* loop, case 'm': `csvMode && !printingHeader` (also in setup)
HeaderDue(mode, latch) == mode /\ ~latch

\* an interval rounded up instead of truncated
IntervalForRoundedUp(newHz) == (MsPerSecond + newHz - 1) \div newHz

\* loop, case 'f': `(unsigned long)(1000.0f / newHz)` for newHz > 0
IntervalFor(newHz) == MsPerSecond \div newHz

\* a known-mass test that takes every parsed value
MassAcceptedAlways(v) == TRUE

\* calibrate: `known_mass != 0`
MassAccepted(v) == FloatNeZero(v)

\* a factor test that takes every parsed value
FactorAcceptedAlways(v) == TRUE

\* changeSavedCalFactor: `newCalibrationValue != 0`
FactorAccepted(v) == FloatNeZero(v)

\* a save step that puts the value on 'n' as well
EepromAfterAnyAnswer(byte, value, old) == IF byte \in {"y", "n"} THEN value ELSE old

\* a save step whose put never reaches the cell
EepromAfterNoPut(byte, value, old) == old

\* both dialogs: 'y' puts the value, every other byte leaves the cell alone
EepromAfter(byte, value, old) == IF byte = "y" THEN value ELSE old

\* both dialogs: `inByte == 'y'` or `inByte == 'n'` ends the wait
DecisionByte(byte) == byte \in {"y", "n"}

\* a setup that goes on to the main loop without calling calibrate()
AfterStartupSkipCalibrate == "loop"

\* setup: `calibrate();` follows the load of the factor, so control waits next in
\* the first wait of calibrate()
AfterStartup == "cal_tare"

\* a return from calibrate() that leaves the time origin as it was
OriginKept(now, old) == old

\* the callers of calibrate(): `startTimeMs = millis();` after it returns
OriginAtReturn(now, old) == now

\* a frequency prompt whose wait has no timeout
FreqWaitNeverOver(waited) == FALSE

\* loop, case 'f': `millis() - startWait < 5000` is false, which ends the wait
FreqWaitOver(waited) == ~(waited < FreqTimeoutMs)

CalibrateIntro == <<"*** Start calibration procedure",
                    "Place the load cell on a stable surface with no load.",
                    "Send 't' from serial monitor to tare.">>
printHelp == <<"Serial commands:">>

\* ----------------------------------------------------------------- setup
\* setup() up to the call of calibrate(): start the driver, halt on a timeout,
\* else load the saved factor and wait for the first data set
setup ==
  /\ pc = "boot"
  /\ tareTimeoutFlag' \in BOOLEAN
  /\ signalTimeoutFlag' \in BOOLEAN
  /\   IF StartFailed(tareTimeoutFlag', signalTimeoutFlag')
       THEN /\ pc' = "halted"
            /\ out' = <<"Starting HX711 Static Thrust Logger...",
                        "Timeout, check wiring and pins">>
            /\ UNCHANGED <<calFactor, calLog>>
       ELSE /\ pc' = AfterStartup
            /\ calFactor' = LoadedFactor(eeprom)
            /\ out' = <<"Starting HX711 Static Thrust Logger...",
                        IF SavedCalUsable(eeprom)
                        THEN "Loaded calFactor from EEPROM: "
                        ELSE "Using default calFactor = 1.0 (no EEPROM value found)",
                        "Startup complete">> \o CalibrateIntro
            /\ calLog' = <<>>
  /\ clock' = clock + stabilizingtime
  /\ caller' = "setup"
  /\ rx' = NoInput
  /\ UNCHANGED <<startTimeMs, lastSampleMs, sampleIntervalMs, csvMode, printingHeader,
                 eeprom, known_mass, newCalibrationValue, reading,
                 headerCount, emitted, lastElapsed, lastSaved>>

\* ------------------------------------------------------------- calibrate
\* one pass of the first wait of calibrate(): a byte 't' asks for a tare, and the
\* wait ends when the driver reports the tare complete.  LoadCell.update() either
\* finds a conversion ("data": the driver clears its signal timeout flag and may
\* complete the tare), finds none ("idle"), or finds none for so long that the
\* driver raises its signal timeout flag ("timeout"); calibrate() never reads the flag.
calibrate_tare ==
  /\ pc = "cal_tare"
  /\ \E d \in {0, DialogWait}, in \in ByteInputs(TareBytes), upd \in UpdateOutcomes,
        tareStatus \in BOOLEAN :
       /\ InWindow(clock + d)
       /\ clock' = clock + d
       /\ rx' = in
       /\ tareStatus => upd = "data"
       /\ signalTimeoutFlag' = CASE upd = "data" -> FALSE
                                  [] upd = "timeout" -> TRUE
                                  [] OTHER -> signalTimeoutFlag
       /\ IF tareStatus
          THEN /\ pc' = "cal_mass"
               /\ calLog' = Append(calLog, "tare")
               /\ out' = <<"Tare complete",
                           "Now place a known mass on the load cell and send its mass (e.g. 100.0)">>
          ELSE /\ out' = <<>>
               /\ UNCHANGED <<pc, calLog>>
  /\ known_mass' = NoValue
  /\ reading' = NoReading
  /\ UNCHANGED <<tareTimeoutFlag, caller, startTimeMs, lastSampleMs, sampleIntervalMs, csvMode,
                 printingHeader, calFactor, eeprom, newCalibrationValue,
                 headerCount, emitted, lastElapsed, lastSaved>>

\* the tare wait spinning, with no input and no tare completion, until the timer
\* is RolloverLead ms short of rolling over (some 49.7 days after power up)
calibrate_tare_rollover ==
  /\ pc = "cal_tare"
  /\ clock >= stabilizingtime
  /\ clock' = -RolloverLead
  /\ rx' = NoInput
  /\ out' = <<>>
  /\ known_mass' = NoValue
  /\ reading' = NoReading
  /\ UNCHANGED <<pc, calLog, tareTimeoutFlag, signalTimeoutFlag, caller, startTimeMs,
                 lastSampleMs, sampleIntervalMs, csvMode, printingHeader, calFactor,
                 eeprom, newCalibrationValue, headerCount, emitted, lastElapsed,
                 lastSaved>>

\* one pass of the second wait: a parsed value that is not 0 is the known mass; the
\* driver then refreshes its data set and computes and installs the new factor
calibrate_mass ==
  /\ pc = "cal_mass"
  /\ \E d \in {0, DialogWait}, in \in {NoInput} \cup {NumIn(n) : n \in MassInputs},
        newFactor \in DriverFactors :
       /\ InWindow(clock + d)
       /\ clock' = clock + d
       /\ rx' = in
       /\ IF in.kind = "num" /\ MassAccepted(Num(in.num))
          THEN /\ known_mass' = Num(in.num)
               /\ newCalibrationValue' = newFactor
               /\ calFactor' = newFactor
               /\ pc' = "cal_save"
               /\ calLog' = Append(calLog, "mass")
               /\ out' = <<"Known mass is: ", "New calibration value has been set to: ",
                           "Save this value to EEPROM address 0? (y/n)">>
          ELSE /\ known_mass' = IF in.kind = "num" THEN Num(in.num) ELSE known_mass
               /\ out' = <<>>
               /\ UNCHANGED <<newCalibrationValue, calFactor, pc, calLog>>
  /\ UNCHANGED <<tareTimeoutFlag, signalTimeoutFlag, caller, startTimeMs, lastSampleMs, sampleIntervalMs, csvMode,
                 printingHeader, eeprom, reading, headerCount, emitted, lastElapsed, lastSaved>>

\* one pass of the third wait: 'y' puts the factor and reads it back, 'n' does not;
\* either ends calibrate(), and the caller then resets the time origin
calibrate_save ==
  /\ pc = "cal_save"
  /\ \E d \in {0, DialogWait}, in \in ByteInputs(SaveBytes) :
       /\ InWindow(clock + d)
       /\ clock' = clock + d
       /\ rx' = in
       /\ eeprom' = EepromAfter(in.byte, newCalibrationValue, eeprom)
       /\ lastSaved' = IF in.byte = "y" THEN newCalibrationValue ELSE lastSaved
       /\ IF DecisionByte(in.byte)
          THEN /\ pc' = "loop"
               /\ calLog' = Append(calLog, "decision")
               /\ newCalibrationValue' = NoValue
               /\ known_mass' = NoValue
               /\ startTimeMs' = OriginAtReturn(clock', startTimeMs)
               /\ lastSampleMs' = startTimeMs'
               /\ emitted' = FALSE
               /\ lastElapsed' = 0
               /\ LET said == <<IF in.byte = "y" THEN "Value saved to EEPROM address: "
                                ELSE "Value not saved to EEPROM",
                                "End calibration", "***">>
                      header == IF HeaderDue(csvMode, printingHeader)
                                THEN <<"time_s,load">> ELSE <<>>
                  IN IF caller = "setup"
                     THEN /\ out' = said \o printHelp \o header
                          /\ printingHeader' = (printingHeader \/ HeaderDue(csvMode, printingHeader))
                     ELSE /\ out' = said
                          /\ UNCHANGED printingHeader
               /\ caller' = "loop"
          ELSE /\ out' = <<>>
               /\ UNCHANGED <<pc, calLog, newCalibrationValue, known_mass, startTimeMs,
                              lastSampleMs, emitted, lastElapsed,
                              printingHeader, caller>>
       /\ headerCount' = headerCount + Headers(out')
  /\ UNCHANGED <<tareTimeoutFlag, signalTimeoutFlag, sampleIntervalMs, csvMode,
                 calFactor, reading>>

\* ------------------------------------------------------------------ loop
\* one pass of loop(): the timed sample, then at most one command byte.  The
\* commands 'r', 'c' and 'f' enter their dialog, which the actions below continue.
loop ==
  /\ pc = "loop"
  /\ \E d \in 1..MaxLate, in \in ByteInputs(LoopBytes) :
     \* LoadCell.getData() is called only when the sample is due
     \E rawLoad \in IF SampleDue(clock + d) THEN RawLoads ELSE {NoValue} :
       LET now == clock + d
           due == SampleDue(now)
           timeMs == now - startTimeMs
           sampled == IF due THEN <<"reading">> ELSE <<>>
           mode == IF in.byte = "m" THEN ~csvMode ELSE csvMode
           header == in.byte = "m" /\ HeaderDue(mode, printingHeader)
           said == CASE in.byte = "t" -> <<"Tare requested">>
                     [] in.byte = "r" -> <<"Recalibrate requested">> \o CalibrateIntro
                     [] in.byte = "c" -> <<"*** Change calibration factor",
                                           "Current value is: ",
                                           "Send the new value from serial monitor, e.g. 696.0">>
                     [] in.byte = "m" -> <<"Mode toggled. CSV mode = ">>
                                         \o (IF header THEN <<"time_s,load">> ELSE <<>>)
                     [] in.byte = "f" -> <<"Enter sample frequency in Hz (e.g. 100)">>
                     [] in.byte = "h" -> printHelp
                     [] OTHER -> <<>>
       IN /\ InWindow(now)
          /\ clock' = now
          /\ rx' = NoInput
          /\ IF due
             THEN /\ lastSampleMs' = NextSampleMs(lastSampleMs, sampleIntervalMs, now)
                  /\ reading' = [t |-> timeMs, raw |-> rawLoad, load |-> clampZero(rawLoad),
                                 csv |-> csvMode, any |-> TRUE]
                  /\ emitted' = TRUE
                  /\ lastElapsed' = timeMs
             ELSE /\ reading' = NoReading
                  /\ UNCHANGED <<lastSampleMs, emitted, lastElapsed>>
          /\ out' = sampled \o said
          /\ csvMode' = mode
          /\ printingHeader' = (printingHeader \/ header)
          /\ headerCount' = headerCount + Headers(out')
          /\ pc' = CASE in.byte = "r" -> "cal_tare"
                     [] in.byte = "c" -> "chg_value"
                     [] in.byte = "f" -> "freq_wait"
                     [] OTHER -> "loop"
          /\ calLog' = IF in.byte = "r" THEN <<>> ELSE calLog
  /\ caller' = "loop"
  /\ UNCHANGED <<tareTimeoutFlag, signalTimeoutFlag, startTimeMs, sampleIntervalMs,
                 calFactor, eeprom, known_mass, newCalibrationValue, lastSaved>>

\* loop, case 'f': the wait of up to 5 s for a number, then the new interval.
\* With no input the wait ends when millis() - startWait reaches 5000.
loop_f ==
  /\ pc = "freq_wait"
  /\ \E d \in {0, DialogWait}, in \in {NoInput} \cup {NumIn(n) : n \in HzInputs} :
       /\ rx' = in
       /\ IF in.kind = "num"
          THEN /\ d < FreqTimeoutMs
               /\ InWindow(clock + d)
               /\ clock' = clock + d
               /\ IF FloatGtZero(Num(in.num))
                  THEN /\ sampleIntervalMs' = IntervalFor(in.num)
                       /\ out' = <<"Sample rate set to: ">>
                       /\ emitted' = (emitted /\ sampleIntervalMs' = sampleIntervalMs)
                       /\ lastElapsed' = IF emitted' THEN lastElapsed ELSE 0
                  ELSE /\ out' = <<"Invalid frequency, ignored">>
                       /\ UNCHANGED <<sampleIntervalMs, emitted, lastElapsed>>
          ELSE /\ FreqWaitOver(FreqTimeoutMs + d)
               /\ clock' = clock + FreqTimeoutMs + d
               /\ out' = <<"No frequency received, ignored">>
               /\ UNCHANGED <<sampleIntervalMs, emitted, lastElapsed>>
  /\ pc' = "loop"
  /\ reading' = NoReading
  /\ UNCHANGED <<tareTimeoutFlag, signalTimeoutFlag, caller, startTimeMs, lastSampleMs, csvMode, printingHeader, calFactor,
                 eeprom, known_mass, newCalibrationValue, headerCount,
                 calLog, lastSaved>>

\* -------------------------------------------------- changeSavedCalFactor
\* one pass of its first wait: a parsed value that is not 0 becomes the factor
changeSavedCalFactor_value ==
  /\ pc = "chg_value"
  /\ \E d \in {0, DialogWait}, in \in {NoInput} \cup {NumIn(n) : n \in FactorInputs} :
       /\ InWindow(clock + d)
       /\ clock' = clock + d
       /\ rx' = in
       /\ IF in.kind = "num" /\ FactorAccepted(Num(in.num))
          THEN /\ newCalibrationValue' = Num(in.num)
               /\ calFactor' = Num(in.num)
               /\ pc' = "chg_save"
               /\ out' = <<"New calibration value is: ",
                           "Save this value to EEPROM address 0? y/n">>
          ELSE /\ newCalibrationValue' = IF in.kind = "num" THEN Num(in.num)
                                         ELSE newCalibrationValue
               /\ out' = <<>>
               /\ UNCHANGED <<calFactor, pc>>
  /\ reading' = NoReading
  /\ UNCHANGED <<tareTimeoutFlag, signalTimeoutFlag, caller, startTimeMs, lastSampleMs, sampleIntervalMs, csvMode,
                 printingHeader, eeprom, known_mass, headerCount,
                 calLog, emitted, lastElapsed, lastSaved>>

\* one pass of its second wait: 'y' puts the factor and reads it back, 'n' does not
changeSavedCalFactor_save ==
  /\ pc = "chg_save"
  /\ \E d \in {0, DialogWait}, in \in ByteInputs(SaveBytes) :
       /\ InWindow(clock + d)
       /\ clock' = clock + d
       /\ rx' = in
       /\ eeprom' = EepromAfter(in.byte, newCalibrationValue, eeprom)
       /\ lastSaved' = IF in.byte = "y" THEN newCalibrationValue ELSE lastSaved
       /\ IF DecisionByte(in.byte)
          THEN /\ pc' = "loop"
               /\ newCalibrationValue' = NoValue
               /\ out' = <<IF in.byte = "y" THEN "Value saved to EEPROM address: "
                           ELSE "Value not saved to EEPROM",
                           "End change calibration value", "***">>
          ELSE /\ out' = <<>>
               /\ UNCHANGED <<pc, newCalibrationValue>>
  /\ UNCHANGED <<tareTimeoutFlag, signalTimeoutFlag, caller, startTimeMs, lastSampleMs, sampleIntervalMs, csvMode,
                 printingHeader, calFactor, known_mass, reading, headerCount,
                 calLog, emitted, lastElapsed>>

\* ------------------------------------------------------------ power cycle
\* a power cycle or reset: the sketch starts over, the EEPROM keeps its content
PowerCycle ==
  /\ pc # "boot"
  /\ pc' = "boot"
  /\ caller' = "setup"
  /\ clock' = 0
  /\ startTimeMs' = 0
  /\ lastSampleMs' = 0
  /\ sampleIntervalMs' = DefaultIntervalMs
  /\ csvMode' = FALSE
  /\ printingHeader' = FALSE
  /\ calFactor' = DriverInitialFactor
  /\ tareTimeoutFlag' = FALSE
  /\ signalTimeoutFlag' = FALSE
  /\ known_mass' = NoValue
  /\ newCalibrationValue' = NoValue
  /\ out' = <<>>
  /\ rx' = NoInput
  /\ reading' = NoReading
  /\ headerCount' = 0
  /\ calLog' = <<>>
  /\ emitted' = FALSE
  /\ lastElapsed' = 0
  /\ UNCHANGED <<eeprom, lastSaved>>

\* ---------------------------------------------------------- specifications
Next ==
  \/ setup
  \/ calibrate_tare
  \/ calibrate_mass
  \/ calibrate_save
  \/ loop
  \/ loop_f
  \/ changeSavedCalFactor_value
  \/ changeSavedCalFactor_save

\* one session, from power up on
Spec == Init /\ [][Next]_vars

NextPower == Next \/ PowerCycle

\* any number of sessions, with power cycles between them
SpecPower == Init /\ [][NextPower]_vars

NextRollover == Next \/ calibrate_tare_rollover

\* one session that may last until the 32 bit timer rolls over
SpecRollover == Init /\ [][NextRollover]_vars

\* one session in which millis() advances: the frequency prompt's wait, which tests
\* the clock on every turn, does not spin forever once its 5000 ms are over.  Nothing
\* is assumed of the operator or of the driver.
SpecFair == Spec /\ WF_vars(loop_f /\ rx' = NoInput)

\* ------------------------------------------------------------ properties
FullCalLog == <<"tare", "mass", "decision">>
FiniteNonZero(f) == f.cls = "num" /\ f.val # 0
TimeoutLines == <<"Starting HX711 Static Thrust Logger...", "Timeout, check wiring and pins">>

\* C1, state part: the stages calibrate() has completed are those before the stage
\* it waits in, the known mass is not 0 once it is accepted, and the main loop runs
\* only after a whole run (tare, mass, decision).
CalibrateStagesInv ==
  /\ pc = "cal_tare" => calLog = <<>>
  /\ pc = "cal_mass" => calLog = <<"tare">>
  /\ pc = "cal_save" => calLog = <<"tare", "mass">> /\ FloatNeZero(known_mass)
  /\ pc \in {"loop", "freq_wait", "chg_value", "chg_save"} => calLog = FullCalLog

\* C1, step part: a stage is left only for the next one, the tare stage only when
\* the driver reports the tare complete, the mass stage only on a parsed value that
\* is not 0 (a 0 or no input changes neither the stage nor the driver's factor), the
\* decision stage only on 'y' or 'n'; a stage is entered only from the one before it.
CalibrateStagesStep ==
  /\ (pc = "cal_tare" /\ pc' # pc) => (pc' = "cal_mass" /\ out'[1] = "Tare complete")
  /\ (pc = "cal_mass" /\ pc' # pc) => (pc' = "cal_save" /\ rx'.kind = "num" /\ rx'.num # 0)
  /\ (pc = "cal_mass" /\ ~(rx'.kind = "num" /\ rx'.num # 0))
       => (pc' = "cal_mass" /\ UNCHANGED <<calFactor, newCalibrationValue, calLog>>)
  /\ (pc = "cal_save" /\ pc' # pc) => (pc' = "loop" /\ rx'.byte \in {"y", "n"})
  /\ (pc' \in CalStages /\ pc' # pc)
       => \/ pc' = "cal_tare" /\ pc \in {"boot", "loop"}
          \/ pc' = "cal_mass" /\ pc = "cal_tare"
          \/ pc' = "cal_save" /\ pc = "cal_mass"

\* C1: every run of calibrate() returns only after one tare completion, then one
\* known mass that is not 0, then one 'y' or 'n', in this order, with no stage
\* skipped or revisited; a value of 0 never advances the stage.
C1_CalibrateInOrder == []CalibrateStagesInv /\ [][CalibrateStagesStep]_vars

\* C1 witness: a recalibration has returned to the main loop on 'n'.
C1_Witness == /\ pc = "loop" /\ calLog = FullCalLog /\ rx = ByteIn("n")
              /\ out = <<"Value not saved to EEPROM", "End calibration", "***">>

\* C2 as claimed: with the interval and the time origin fixed, the elapsed time of a
\* reading is the elapsed time of the reading before it plus the interval (stated
\* for the intervals > 0, so that it does not rest on an interval of 0).
C2_ElapsedArithmetic ==
  [][(pc = "loop" /\ reading'.any /\ emitted /\ sampleIntervalMs > 0)
       => reading'.t = lastElapsed + sampleIntervalMs]_vars

\* C2 amended: the schedule point lastSampleMs moves only when a reading is printed,
\* then by exactly the interval (or when calibrate() returns and the origin is
\* reset); the elapsed time printed is the time of the poll since the origin, which
\* is never before the schedule point.
C2_ScheduleArithmetic ==
  [][/\ (pc = "loop" /\ reading'.any)
          => /\ lastSampleMs' = lastSampleMs + sampleIntervalMs
             /\ reading'.t = clock' - startTimeMs
             /\ reading'.t >= lastSampleMs' - startTimeMs
     /\ lastSampleMs' # lastSampleMs
          => ((pc = "loop" /\ reading'.any) \/ pc = "cal_save")]_vars

\* C2 witness: the second reading at a 3 ms interval, printed 1 ms late.
C2_Witness == /\ pc = "loop" /\ reading.any /\ sampleIntervalMs = 3
              /\ lastSampleMs = startTimeMs + 6 /\ reading.t = 7

\* C3 as claimed: sampleIntervalMs is > 0 in every reachable state.
C3_IntervalPositive == sampleIntervalMs > 0

\* C4: the frequency prompt sets the interval to the truncation of 1000 / Hz for a
\* positive value received within 5 s (50 Hz gives 20 ms); for 0, a negative value or
\* no input within 5 s it leaves the interval as it was and prints a rejection.
C4_FrequencyCommand ==
  [][(pc = "freq_wait" /\ pc' = "loop")
       => /\ (rx'.kind = "num" /\ rx'.num > 0)
               => /\ sampleIntervalMs' * rx'.num <= 1000
                  /\ (sampleIntervalMs' + 1) * rx'.num > 1000
                  /\ out' = <<"Sample rate set to: ">>
          /\ (rx'.kind = "num" /\ rx'.num = 50) => sampleIntervalMs' = 20
          /\ rx'.kind = "num" => clock' - clock < 5000
          /\ (rx'.kind = "num" /\ rx'.num <= 0)
               => /\ sampleIntervalMs' = sampleIntervalMs
                  /\ out' = <<"Invalid frequency, ignored">>
          /\ rx'.kind = "none"
               => /\ sampleIntervalMs' = sampleIntervalMs
                  /\ out' = <<"No frequency received, ignored">>
                  /\ clock' - clock >= 5000]_vars

\* C4 witness: 50 Hz was received and the interval is 20 ms.
C4_Witness == /\ pc = "loop" /\ rx = NumIn(50) /\ sampleIntervalMs = 20
              /\ out = <<"Sample rate set to: ">>

\* C5: when the driver starts without a timeout, the factor setup installs is 1.0 for
\* a stored NaN or 0.0 and the stored value otherwise, and the line printed says
\* which of the two it was.
C5_StartupLoad ==
  [][(pc = "boot" /\ pc' # pc /\ ~tareTimeoutFlag' /\ ~signalTimeoutFlag')
       => /\ pc' = "cal_tare"
          /\ calFactor' = IF eeprom.cls = "nan" \/ eeprom = Num(0) THEN Num(1) ELSE eeprom
          /\ out'[2] = IF eeprom.cls = "nan" \/ eeprom = Num(0)
                       THEN "Using default calFactor = 1.0 (no EEPROM value found)"
                       ELSE "Loaded calFactor from EEPROM: "]_vars

\* C5 witness: setup found a NaN and installed 1.0.
C5_Witness == /\ pc = "cal_tare" /\ caller = "setup" /\ eeprom = NaN
              /\ calFactor = Num(1)

\* C6: after a power cycle, setup installs the finite factor other than 0 that the
\* operator last confirmed with 'y'.
C6_RoundTrip ==
  [][(pc = "boot" /\ pc' = "cal_tare" /\ FiniteNonZero(lastSaved))
       => calFactor' = lastSaved]_vars

\* C6 witness: 250 was saved in an earlier session and setup has installed it.
C6_Witness == /\ pc = "cal_tare" /\ caller = "setup" /\ lastSaved = Num(250)
              /\ calFactor = Num(250) /\ out[2] = "Loaded calFactor from EEPROM: "

\* C7: the stored value changes only in a step in which a y/n wait reads 'y'.
C7_StoreWrittenOnlyOnYes ==
  [][eeprom' # eeprom => (pc \in {"cal_save", "chg_save"} /\ rx' = ByteIn("y"))]_vars

\* C7 witness: the 'c' dialog ended with 'n' and the store still holds what it held
\* at power up, while the driver uses the typed factor.
C7_Witness == /\ pc = "loop" /\ rx = ByteIn("n") /\ calFactor = Num(696)
              /\ lastSaved = NoValue /\ eeprom = NaN
              /\ out[1] = "Value not saved to EEPROM"

\* C8: in one session the CSV header is printed at most once, it has been printed
\* whenever CSV mode is on, and it is printed only in the step that first turns CSV
\* mode on.
C8_HeaderOnce ==
  /\ [](headerCount <= 1 /\ (csvMode => headerCount = 1))
  /\ [][headerCount' # headerCount
          => (~csvMode /\ csvMode' /\ headerCount = 0 /\ headerCount' = 1)]_vars

\* C8 witness: CSV mode was turned on again and no header was printed.
C8_Witness == /\ csvMode /\ headerCount = 1 /\ Len(out) > 0
              /\ out[Len(out)] = "Mode toggled. CSV mode = "

\* C9: a tare or signal timeout at the start prints the timeout line and halts: no
\* factor is loaded, calibrate() never starts, no reading is printed, no input is
\* read and nothing of the sketch's state, the store included, changes again.
C9_FatalTimeoutHalts ==
  /\ [][(pc = "boot" /\ (tareTimeoutFlag' \/ signalTimeoutFlag')) => pc' = "halted"]_vars
  /\ [](pc = "halted"
          => /\ tareTimeoutFlag \/ signalTimeoutFlag
             /\ out = TimeoutLines
             /\ calFactor = DriverInitialFactor
             /\ calLog = <<>>
             /\ ~reading.any
             /\ rx = NoInput)
  /\ [][pc = "halted" => UNCHANGED progVars]_vars

\* C9 witness: halted on the signal timeout alone.
C9_Witness == pc = "halted" /\ signalTimeoutFlag /\ ~tareTimeoutFlag

\* C10 as claimed: the reading printed is the driver's value when that is >= 0 and
\* 0 otherwise, so it is >= 0.
C10_ClampAsClaimed ==
  reading.any
    => /\ reading.load = IF FloatGeZero(reading.raw) THEN reading.raw ELSE Num(0)
       /\ FloatGeZero(reading.load)

\* C10 amended: the reading printed is 0 when the driver's value is < 0 and the
\* driver's value otherwise (a NaN stays a NaN); clamping it again changes nothing;
\* it is never < 0, and it is >= 0 whenever the driver's value is not a NaN.
C10_ClampNegativeOnly ==
  reading.any
    => /\ reading.load = IF FloatLtZero(reading.raw) THEN Num(0) ELSE reading.raw
       /\ clampZero(reading.load) = reading.load
       /\ ~FloatLtZero(reading.load)
       /\ ~isnan(reading.raw) => FloatGeZero(reading.load)

\* C10 witness: a negative value was printed as 0 in CSV mode.
C10_Witness == reading.any /\ reading.csv /\ reading.raw = Num(-5) /\ reading.load = Num(0)

\* C11 as claimed: whatever the store holds, the factor setup installs is finite and
\* not 0.
C11_LoadedFactorValid ==
  [][(pc = "boot" /\ pc' = "cal_tare") => FiniteNonZero(calFactor')]_vars

\* C12 as claimed: ticks that elapsed while the loop was not polled are skipped, so
\* after a poll that printed a reading no tick is still pending (stated for the
\* intervals > 0).
C12_NoTickPending ==
  [][(pc = "loop" /\ reading'.any /\ sampleIntervalMs > 0)
       => clock' - lastSampleMs' < sampleIntervalMs]_vars

\* C12 amended: a poll prints at most one reading and moves the schedule point by one
\* interval only, and a poll that finds a tick pending always prints: the ticks that
\* elapsed while the loop was not polled stay pending and are worked off one per
\* poll, none is skipped.
C12_CatchUp ==
  [][pc = "loop"
       => /\ Len(SelectSeq(out', LAMBDA l : l = "reading")) <= 1
          /\ clock - lastSampleMs >= sampleIntervalMs
               => /\ reading'.any
                  /\ lastSampleMs' = lastSampleMs + sampleIntervalMs
                  /\ clock' - lastSampleMs' = (clock' - lastSampleMs) - sampleIntervalMs]_vars

\* C12 witness: a reading was printed at a 3 ms interval and two more ticks are
\* still pending.
C12_Witness == /\ pc = "loop" /\ reading.any /\ sampleIntervalMs = 3
               /\ clock - lastSampleMs >= 2 * sampleIntervalMs

\* C13: a poll at which now - lastSampleMs >= sampleIntervalMs adds exactly the
\* interval to lastSampleMs and prints one reading with the elapsed time
\* now - startTimeMs; any other poll leaves lastSampleMs alone and prints no reading.
\* The frequency prompt changes neither lastSampleMs nor startTimeMs, and the poll
\* after it compares with the interval it set.
C13_PollFrame ==
  [][/\ pc = "loop"
          => IF clock' - lastSampleMs >= sampleIntervalMs
             THEN /\ lastSampleMs' = lastSampleMs + sampleIntervalMs
                  /\ reading'.any
                  /\ reading'.t = clock' - startTimeMs
                  /\ out'[1] = "reading"
             ELSE /\ lastSampleMs' = lastSampleMs
                  /\ ~reading'.any
                  /\ \A i \in 1..Len(out') : out'[i] # "reading"
     /\ pc = "freq_wait"
          => /\ lastSampleMs' = lastSampleMs
             /\ startTimeMs' = startTimeMs]_vars

\* C13 witness: the interval was set to 3 ms and the first reading after that was
\* printed on time, 3 ms after the origin.
C13_Witness == /\ pc = "loop" /\ reading.any /\ sampleIntervalMs = 3
               /\ reading.t = 3 /\ lastSampleMs = startTimeMs + 3

\* C14: until the calibration that setup calls has returned, control is in setup or
\* in calibrate(), no reading and no header was printed and the time origin is
\* untouched; setup goes on to the first wait of calibrate() and nowhere else; the
\* calibration ends once, by its save wait, after a whole run, and that step sets
\* startTimeMs = lastSampleMs = the time of the return.
C14_CalibrateBeforeLoop ==
  /\ [](caller = "setup"
          => /\ pc \in {"boot", "halted"} \cup CalStages
             /\ ~reading.any /\ ~emitted /\ headerCount = 0
             /\ startTimeMs = 0 /\ lastSampleMs = 0)
  /\ [][(pc = "boot" /\ pc' \notin {"boot", "halted"})
          => (pc' = "cal_tare" /\ calLog' = <<>> /\ caller' = "setup")]_vars
  /\ [][(caller = "setup" /\ caller' # "setup")
          => /\ pc = "cal_save" /\ pc' = "loop"
             /\ calLog' = FullCalLog
             /\ startTimeMs' = clock' /\ lastSampleMs' = clock']_vars
  /\ [][caller # "setup" => caller' # "setup"]_vars

\* C14 witness: the startup calibration has just returned: the help text follows
\* it and the origin is the time of the return.
C14_Witness == /\ pc = "loop" /\ caller = "loop" /\ calLog = FullCalLog
               /\ Len(out) = 4 /\ out[4] = "Serial commands:"
               /\ startTimeMs = clock /\ lastSampleMs = clock /\ clock > stabilizingtime

\* C15: the return of calibrate() sets startTimeMs and lastSampleMs to the time of
\* the return, and no other step changes startTimeMs ('c', 'f', 't', 'm', 'h' and the
\* sampling leave it alone); every reading's elapsed time is measured from
\* startTimeMs and is at least one interval.
C15_RecalibrateResetsOrigin ==
  /\ [][(pc = "cal_save" /\ pc' = "loop")
          => (startTimeMs' = clock' /\ lastSampleMs' = clock')]_vars
  /\ [][startTimeMs' # startTimeMs => (pc = "cal_save" /\ pc' = "loop")]_vars
  /\ [][(pc = "loop" /\ reading'.any)
          => /\ reading'.t = clock' - startTimeMs
             /\ reading'.t >= sampleIntervalMs]_vars

\* C15 witness: a recalibration asked for with 'r' has returned, later than the
\* startup one could, and the origin is the time of its return.
C15_Witness == /\ pc = "loop" /\ Len(out) = 3 /\ out[2] = "End calibration"
               /\ startTimeMs = clock /\ lastSampleMs = clock
               /\ clock > stabilizingtime + DialogWait

\* C16: the frequency prompt always returns to the main loop, in one step of its
\* wait, after less than 5000 ms with a number and after 5000 ms without input;
\* the waits of calibrate() and changeSavedCalFactor() do not end on a pass without
\* input, and the tare wait ends only when the driver reports the tare complete.
C16_FrequencyPromptReturns ==
  /\ (pc = "freq_wait") ~> (pc = "loop")
  /\ [][pc = "freq_wait"
          => /\ pc' = "loop"
             /\ rx'.kind = "num" => clock' - clock < FreqTimeoutMs
             /\ rx'.kind = "none" => /\ clock' - clock >= FreqTimeoutMs
                                     /\ clock' - clock <= FreqTimeoutMs + DialogWait]_vars
  /\ [][(pc \in {"cal_mass", "cal_save", "chg_value", "chg_save"} /\ rx' = NoInput)
          => pc' = pc]_vars
  /\ [][(pc = "cal_tare" /\ pc' # pc) => out'[1] = "Tare complete"]_vars

\* C16 witness: the prompt gave up after 5000 ms without input.
C16_Witness == /\ pc = "loop" /\ rx = NoInput
               /\ out = <<"No frequency received, ignored">>

\* the step reads a parsed value that is not an entry: <= 0 at one of the three
\* numeric prompts
RejectedValueRead ==
  /\ pc \in {"freq_wait", "cal_mass", "chg_value"}
  /\ rx'.kind = "num" /\ rx'.num <= 0

\* C17 as claimed: a value <= 0 read by the frequency prompt, the known-mass wait or
\* the factor wait prints a line and leaves the interval, the driver's factor and
\* the store as they were.
C17_RejectedInputReported ==
  [][RejectedValueRead
       => (Len(out') > 0 /\ UNCHANGED <<sampleIntervalMs, calFactor, eeprom>>)]_vars

\* C17 amended: the frequency prompt reports a value <= 0 and keeps the interval;
\* the known-mass wait and the factor wait print nothing for a 0, go on waiting and
\* keep the interval, the factor and the store; the known-mass wait takes a
\* negative value as the known mass.
C17_RejectedInputHandling ==
  [][/\ (pc = "freq_wait" /\ rx'.kind = "num" /\ rx'.num <= 0)
          => /\ out' = <<"Invalid frequency, ignored">>
             /\ pc' = "loop"
             /\ UNCHANGED <<sampleIntervalMs, calFactor, eeprom>>
     /\ (pc \in {"cal_mass", "chg_value"} /\ rx'.kind = "num" /\ rx'.num = 0)
          => /\ out' = <<>>
             /\ pc' = pc
             /\ UNCHANGED <<sampleIntervalMs, calFactor, eeprom>>
     /\ (pc = "cal_mass" /\ rx'.kind = "num" /\ rx'.num < 0)
          => /\ pc' = "cal_save"
             /\ known_mass' = Num(rx'.num)
             /\ out'[1] = "Known mass is: "]_vars

\* C17 witness: the factor wait read a 0, printed nothing and still waits.
C17_Witness == /\ pc = "chg_value" /\ rx = NumIn(0) /\ out = <<>>
               /\ newCalibrationValue = Num(0)

\* C18 as claimed: when a timeout flag of the driver is set in the tare wait, a line
\* is printed and the device halts.
C18_TimeoutInTareHalts ==
  [][(pc = "cal_tare" /\ (tareTimeoutFlag' \/ signalTimeoutFlag'))
       => (pc' = "halted" /\ Len(out') > 0)]_vars

\* C19: a save wait that reads 'n' returns with the factor of the procedure still in
\* the driver and the store as it was; the driver's factor changes only when setup
\* loads it, when the known mass is taken and when a typed factor is taken; and
\* after a restart setup installs what the store holds, or 1.0 for a NaN or a 0.
C19_DiscardedFactorActive ==
  /\ [][(pc \in {"cal_save", "chg_save"} /\ rx' = ByteIn("n"))
          => /\ pc' = "loop"
             /\ eeprom' = eeprom
             /\ calFactor' = calFactor
             /\ calFactor' = newCalibrationValue]_vars
  /\ [][calFactor' # calFactor
          => (pc \in {"boot", "cal_mass", "chg_value"} \/ pc' = "boot")]_vars
  /\ [][(pc = "boot" /\ pc' = "cal_tare")
          => calFactor' = IF isnan(eeprom) \/ eeprom = Num(0) THEN Num(1) ELSE eeprom]_vars

\* C19 witness: 696 was saved, then a recalibration gave 250 and ended with 'n':
\* the driver uses 250 and the store holds 696.
C19_Witness == /\ pc = "loop" /\ rx = ByteIn("n") /\ Len(out) = 3
               /\ out[2] = "End calibration"
               /\ calFactor = Num(250) /\ eeprom = Num(696) /\ lastSaved = Num(696)

\* the main loop has run: the startup calibration has returned
LoopStarted == caller = "loop"

====
